---- MODULE Spec2Model ----
(***************************************************************************)
(* Model of armada_jupyter/submissions.py: the translation of a YAML       *)
(* document into Submission objects (timeout normalisation, resource      *)
(* options / resource pair construction, get_submissions, to_podspec).    *)
(*                                                                         *)
(* Python values are tagged records, so that values of different Python    *)
(* types can be compared: [int |-> n], [str |-> <<chars>>], [none |-> T],  *)
(* [dict |-> [key |-> value-or-Absent]].  A Python string is the sequence  *)
(* of its characters.  A call either returns ([return |-> v]) or raises    *)
(* ([raise |-> [type |-> .., msg |-> ..]]).                                *)
(***************************************************************************)
EXTENDS Integers, Sequences, FiniteSets

VARIABLES
    pc,           \* position of the running call
    call,         \* the call under way: [op |-> name, args |-> <<values>>]
    ret,          \* what the call returned or raised (NotYet before it ends)
    config,       \* get_submissions: the loaded YAML document
    idx,          \* get_submissions: index of the entry the loop is at
    resources,    \* get_submissions: the popped resources value
    submission,   \* the Submission object at hand (the loop variable / self)
    submissions,  \* get_submissions: the list built so far
    podspec       \* the last to_podspec() result

vars == <<pc, call, ret, config, idx, resources, submission, submissions, podspec>>

(***************************************************************************)
(* Bounds                                                                  *)
(***************************************************************************)
\* longest timeout string drawn
MaxLen == 3
\* most entries in a document
MaxEntries == 2

(***************************************************************************)
(* Python values                                                           *)
(***************************************************************************)
Absent == [absent |-> TRUE]
None == [none |-> TRUE]
NotYet == [notyet |-> TRUE]
PyInt(n) == [int |-> n]
PyStr(s) == [str |-> s]

IsAbsent(x) == "absent" \in DOMAIN x
IsNone(x) == "none" \in DOMAIN x
IsInt(x) == "int" \in DOMAIN x
IsStr(x) == "str" \in DOMAIN x
IsDict(x) == "dict" \in DOMAIN x

Return(v) == [return |-> v]
Raise(type, msg) == [raise |-> [type |-> type, msg |-> msg]]
IsReturn(r) == "return" \in DOMAIN r
IsRaise(r) == "raise" \in DOMAIN r

\* Python truth value of a value
Truthy(x) ==
    IF IsNone(x) \/ IsAbsent(x) THEN FALSE
    ELSE IF IsInt(x) THEN x.int # 0
    ELSE IF IsStr(x) THEN Len(x.str) > 0
    ELSE IF IsDict(x) THEN \E k \in DOMAIN x.dict : ~IsAbsent(x.dict[k])
    ELSE TRUE

\* d.get(key, default)
Get(d, key, default) ==
    IF IsAbsent(d.dict[key]) THEN default ELSE d.dict[key]

(***************************************************************************)
(* str(int) and int(str)                                                   *)
(***************************************************************************)
Digits == <<"0", "1", "2", "3", "4", "5", "6", "7", "8", "9">>
DigitChars == {Digits[k] : k \in 1..10}
DigitValue(c) == (CHOOSE k \in 1..10 : Digits[k] = c) - 1

RECURSIVE NatToStr(_)
NatToStr(n) ==
    IF n < 10 THEN <<Digits[n + 1]>>
    ELSE NatToStr(n \div 10) \o <<Digits[(n % 10) + 1]>>

\* str(n) of a Python int
IntToStr(n) == IF n < 0 THEN <<"-">> \o NatToStr(-n) ELSE NatToStr(n)

RECURSIVE LStrip(_)
LStrip(s) == IF Len(s) > 0 /\ Head(s) = " " THEN LStrip(Tail(s)) ELSE s

RECURSIVE RStrip(_)
RStrip(s) ==
    IF Len(s) > 0 /\ s[Len(s)] = " " THEN RStrip(SubSeq(s, 1, Len(s) - 1)) ELSE s

\* the digits part of an int literal: digits, single underscores between them
IsDigitsLiteral(s) ==
    /\ Len(s) > 0
    /\ s[1] \in DigitChars
    /\ s[Len(s)] \in DigitChars
    /\ \A k \in 1..Len(s) : s[k] \in DigitChars \/ s[k] = "_"
    /\ \A k \in 1..(Len(s) - 1) : ~(s[k] = "_" /\ s[k + 1] = "_")

RECURSIVE DigitsValue(_, _)
DigitsValue(s, acc) ==
    IF Len(s) = 0 THEN acc
    ELSE IF Head(s) = "_" THEN DigitsValue(Tail(s), acc)
    ELSE DigitsValue(Tail(s), acc * 10 + DigitValue(Head(s)))

\* int(x): of an int, x; of a str, the parsed literal or ValueError
py_int(x) ==
    IF IsInt(x) THEN Return(x)
    ELSE IF ~IsStr(x) THEN Raise("TypeError", "int() argument")
    ELSE LET t == RStrip(LStrip(x.str))
             signed == Len(t) > 0 /\ t[1] \in {"+", "-"}
             body == IF signed THEN Tail(t) ELSE t
         IN  IF ~IsDigitsLiteral(body)
             THEN Raise("ValueError", "invalid literal for int()")
             ELSE IF signed /\ t[1] = "-"
                  THEN Return(PyInt(-DigitsValue(body, 0)))
                  ELSE Return(PyInt(DigitsValue(body, 0)))

\* str(x)
py_str(x) ==
    IF IsStr(x) THEN x
    ELSE IF IsInt(x) THEN PyStr(IntToStr(x.int))
    ELSE PyStr(<<"N", "o", "n", "e">>)

(***************************************************************************)
(* Submission.timeout_conversion                                           *)
(***************************************************************************)
TimeoutError == Raise("ValueError", "Timeout must be in the form of [x]h, [x]m or [x]s")

ScaledTimeout(prefix, factor) ==
    LET n == py_int(PyStr(prefix))
    IN  IF IsRaise(n) THEN n
        ELSE Return(PyStr(IntToStr(n.return.int * factor) \o <<"s">>))

\* seeded fault: timeout_conversion with the minute factor in the hour branch
timeout_conversion_hours_as_minutes(timeout) ==
    IF ~IsStr(timeout) THEN Raise("TypeError", "not subscriptable")
    ELSE IF Len(timeout.str) = 0 THEN Raise("IndexError", "string index out of range")
    ELSE LET s == timeout.str
             last == s[Len(s)]
             prefix == SubSeq(s, 1, Len(s) - 1)
         IN  IF last = "m" THEN ScaledTimeout(prefix, 60)
             ELSE IF last = "h" THEN ScaledTimeout(prefix, 60)
             ELSE IF last = "s" THEN Return(timeout)
             ELSE TimeoutError

timeout_conversion(timeout) ==
    IF ~IsStr(timeout) THEN Raise("TypeError", "not subscriptable")
    ELSE IF Len(timeout.str) = 0 THEN Raise("IndexError", "string index out of range")
    ELSE LET s == timeout.str
             last == s[Len(s)]
             prefix == SubSeq(s, 1, Len(s) - 1)
         IN  IF last = "m" THEN ScaledTimeout(prefix, 60)
             ELSE IF last = "h" THEN ScaledTimeout(prefix, 60 * 60)
             ELSE IF last = "s" THEN Return(timeout)
             ELSE TimeoutError

(***************************************************************************)
(* armada_jupyter.constants (its values are configuration)                 *)
(***************************************************************************)
DEFAULT_QUEUE == PyStr(<<"d", "e", "f", "a", "u", "l", "t">>)
DEFAULT_PRIORITY == PyInt(1)
DEFAULT_TIMEOUT == PyStr(<<"2", "4", "h">>)
DEFAULT_MEMORY == PyStr(<<"1", "G", "i">>)
DEFAULT_CPU == PyInt(1)

(***************************************************************************)
(* K8sResourceOptions                                                      *)
(***************************************************************************)
\* api_resource.Quantity(string=s)
Quantity(s) == [string |-> s.str]
IsQuantity(x) == "string" \in DOMAIN x

IsK8sResourceOptions(x) == DOMAIN x = {"cpu", "memory", "nvidia_gpu", "amd_gpu"}

\* the accelerator field after construction: converted only when truthy
GpuField(gpu) == IF Truthy(gpu) THEN Quantity(py_str(gpu)) ELSE gpu

\* seeded fault: K8sResourceOptions without the both-accelerators check
K8sResourceOptions_no_conflict_check(cpu, memory, nvidia_gpu, amd_gpu) ==
    Return([cpu |-> Quantity(py_str(cpu)),
            memory |-> Quantity(memory),
            nvidia_gpu |-> GpuField(nvidia_gpu),
            amd_gpu |-> GpuField(amd_gpu)])

K8sResourceOptions(cpu, memory, nvidia_gpu, amd_gpu) ==
    IF Truthy(nvidia_gpu) /\ Truthy(amd_gpu)
    THEN Raise("ValueError", "Both nvidia_gpu and amd_gpu cannot be set at the same time.")
    ELSE Return([cpu |-> Quantity(py_str(cpu)),
                 memory |-> Quantity(memory),
                 nvidia_gpu |-> GpuField(nvidia_gpu),
                 amd_gpu |-> GpuField(amd_gpu)])

(***************************************************************************)
(* K8sResources                                                            *)
(***************************************************************************)
IsK8sResources(x) == DOMAIN x = {"limits", "requests"}

BothError == Raise("ValueError", "Must specify both limits and requests")

\* seeded fault: K8sResources checking limits only
K8sResources_only_limits_checked(limits, requests) ==
    IF IsNone(limits)
    THEN BothError
    ELSE Return([limits |-> limits, requests |-> limits])

K8sResources(limits, requests) ==
    IF IsNone(limits) \/ IsNone(requests)
    THEN BothError
    ELSE Return([limits |-> limits, requests |-> limits])

(***************************************************************************)
(* k8s_resources_from_dict                                                 *)
(***************************************************************************)
\* one turn of the loop: the K8sResourceOptions of one section
OptionsFromDict(needs_changed) ==
    IF IsNone(needs_changed) THEN Return(None)
    ELSE LET cpu == py_int(Get(needs_changed, "cpu", DEFAULT_CPU))
         IN  IF IsRaise(cpu) THEN cpu
             ELSE K8sResourceOptions(
                      cpu.return,
                      py_str(Get(needs_changed, "memory", DEFAULT_MEMORY)),
                      Get(needs_changed, "nvidia_gpu", None),
                      Get(needs_changed, "amd_gpu", None))

k8s_resources_from_dict(limits, requests) ==
    IF IsNone(limits) \/ IsNone(requests)
    THEN BothError
    ELSE LET l == OptionsFromDict(limits)
             r == OptionsFromDict(requests)
         IN  IF IsRaise(l) THEN l
             ELSE IF IsRaise(r) THEN r
             ELSE K8sResources(l.return, r.return)

(***************************************************************************)
(* Submission                                                              *)
(***************************************************************************)
IsSubmission(x) == "armada_queue" \in DOMAIN x

\* seeded fault: Submission.__init__ without the isinstance check
Submission_no_type_check(name, image, armada_queue, armada_priority, timeout, res) ==
    LET t == timeout_conversion(timeout)
    IN  IF IsRaise(t) THEN t
        ELSE Return([name |-> name,
                     image |-> image,
                     armada_queue |-> armada_queue,
                     armada_priority |-> armada_priority,
                     timeout |-> t.return,
                     resources |-> res])

\* Submission.__init__
Submission(name, image, armada_queue, armada_priority, timeout, res) ==
    LET t == timeout_conversion(timeout)
    IN  IF IsRaise(t) THEN t
        ELSE IF ~IsK8sResources(res) /\ ~IsNone(res)
        THEN Raise("ValueError", "resources must be a K8sResources object")
        ELSE Return([name |-> name,
                     image |-> image,
                     armada_queue |-> armada_queue,
                     armada_priority |-> armada_priority,
                     timeout |-> t.return,
                     resources |-> res])

\* seeded fault: resources_from_dict storing the dictionary it was given
resources_from_dict_stores_dict(self, res) ==
    IF ~IsDict(res)
    THEN [self |-> self, ret |-> Raise("AttributeError", "object has no attribute 'get'")]
    ELSE LET r == k8s_resources_from_dict(Get(res, "limits", None),
                                          Get(res, "requests", None))
         IN  IF IsRaise(r)
             THEN [self |-> self, ret |-> r]
             ELSE [self |-> [self EXCEPT !.resources = res], ret |-> Return(None)]

\* Submission.resources_from_dict: the object after the call, and its outcome
resources_from_dict(self, res) ==
    IF ~IsDict(res)
    THEN [self |-> self, ret |-> Raise("AttributeError", "object has no attribute 'get'")]
    ELSE LET r == k8s_resources_from_dict(Get(res, "limits", None),
                                          Get(res, "requests", None))
         IN  IF IsRaise(r)
             THEN [self |-> self, ret |-> r]
             ELSE [self |-> [self EXCEPT !.resources = r.return], ret |-> Return(None)]

\* the requests / limits map of to_podspec for one K8sResourceOptions
ResourceMap(options) ==
    LET keys == {"cpu", "memory"}
                \cup (IF Truthy(options.nvidia_gpu) THEN {"nvidia_gpu"} ELSE {})
                \cup (IF Truthy(options.amd_gpu) THEN {"amd_gpu"} ELSE {})
    IN  [k \in keys |-> options[k]]

EmptyMap == [k \in {} |-> None]

\* Submission.to_podspec
to_podspec(self) ==
    LET present == Truthy(self.resources)
        requests == IF present THEN ResourceMap(self.resources.requests) ELSE EmptyMap
        limits == IF present THEN ResourceMap(self.resources.limits) ELSE EmptyMap
    IN  [activeDeadlineSeconds |-> self.timeout,
         containers |-> <<[name |-> self.name,
                           image |-> self.image,
                           securityContext |-> [runAsUser |-> 1000],
                           resources |-> [requests |-> requests, limits |-> limits]]>>]

(***************************************************************************)
(* Inputs                                                                  *)
(***************************************************************************)
SeqsUpTo(S, n) == UNION {[1..k -> S] : k \in 0..n}

TimeoutChars == DigitChars \cup {"s", "m", "h", "x", "-", "+", " ", "_"}
TimeoutStrings == SeqsUpTo(TimeoutChars, MaxLen)

CpuValues == {PyInt(1), PyInt(2), PyStr(<<"4">>)}
MemoryValues == {PyStr(<<"1", "G", "i">>), PyStr(<<"5", "1", "2", "M", "i">>)}
GpuValues == {None, PyInt(0), PyInt(1), PyStr(<<>>), PyStr(<<"0">>), PyStr(<<"2">>)}

\* a limits / requests section of a resources dictionary
OptionDicts ==
    {[dict |-> [cpu |-> c, memory |-> m, nvidia_gpu |-> n, amd_gpu |-> a]] :
        c \in {Absent, PyInt(2), PyStr(<<"x">>)},
        m \in {Absent, PyStr(<<"2", "G", "i">>)},
        n \in {Absent, PyInt(0), PyInt(1)},
        a \in {Absent, PyStr(<<"2">>)}}

ResourceDicts ==
    {[dict |-> [limits |-> l, requests |-> r]] :
        l \in {Absent} \cup OptionDicts, r \in {Absent} \cup OptionDicts}

\* the K8sResourceOptions objects the sections above build
OptionObjects ==
    {OptionsFromDict(d).return : d \in {x \in OptionDicts : IsReturn(OptionsFromDict(x))}}

Name_nb == PyStr(<<"n", "b">>)
Name_nb2 == PyStr(<<"n", "b", "2">>)
Image_img == PyStr(<<"i", "m", "g", ":", "t", "a", "g">>)
Timeout_10m == PyStr(<<"1", "0", "m">>)

\* the receiver of a resources_from_dict call made on a fresh Submission
FreshSubmission ==
    Submission(Name_nb, Image_img, DEFAULT_QUEUE, DEFAULT_PRIORITY, Timeout_10m, None).return

(***************************************************************************)
(* SpecCalls: one call of one function, its arguments drawn in Init        *)
(***************************************************************************)
Calls ==
    {[op |-> "timeout_conversion", args |-> <<PyStr(s)>>] : s \in TimeoutStrings}
    \cup {[op |-> "K8sResourceOptions", args |-> <<c, m, n, a>>] :
            c \in CpuValues, m \in MemoryValues, n \in GpuValues, a \in GpuValues}
    \cup {[op |-> "K8sResources", args |-> <<l, r>>] :
            l \in {None} \cup OptionObjects, r \in {None} \cup OptionObjects}
    \cup {[op |-> "k8s_resources_from_dict", args |-> <<l, r>>] :
            l \in {None} \cup OptionDicts, r \in {None} \cup OptionDicts}
    \cup {[op |-> "resources_from_dict", args |-> <<d>>] :
            d \in ResourceDicts \cup {PyStr(<<"x">>)}}

InitCalls ==
    /\ pc = "call"
    /\ call \in Calls
    /\ ret = NotYet
    /\ submission = IF call.op = "resources_from_dict" THEN FreshSubmission ELSE None
    /\ config = None
    /\ idx = 0
    /\ resources = None
    /\ submissions = <<>>
    /\ podspec = None

Finish(result) ==
    /\ ret' = result
    /\ pc' = "done"
    /\ UNCHANGED <<call, config, idx, resources, submissions, podspec>>

CallTimeoutConversion ==
    /\ pc = "call"
    /\ call.op = "timeout_conversion"
    /\ Finish(timeout_conversion(call.args[1]))
    /\ UNCHANGED submission

CallK8sResourceOptions ==
    /\ pc = "call"
    /\ call.op = "K8sResourceOptions"
    /\ Finish(K8sResourceOptions(call.args[1], call.args[2], call.args[3], call.args[4]))
    /\ UNCHANGED submission

CallK8sResources ==
    /\ pc = "call"
    /\ call.op = "K8sResources"
    /\ Finish(K8sResources(call.args[1], call.args[2]))
    /\ UNCHANGED submission

CallK8sResourcesFromDict ==
    /\ pc = "call"
    /\ call.op = "k8s_resources_from_dict"
    /\ Finish(k8s_resources_from_dict(call.args[1], call.args[2]))
    /\ UNCHANGED submission

CallResourcesFromDict ==
    /\ pc = "call"
    /\ call.op = "resources_from_dict"
    /\ LET out == resources_from_dict(submission, call.args[1])
       IN  /\ Finish(out.ret)
           /\ submission' = out.self

NextCalls ==
    \/ CallTimeoutConversion
    \/ CallK8sResourceOptions
    \/ CallK8sResources
    \/ CallK8sResourcesFromDict
    \/ CallResourcesFromDict

SpecCalls == InitCalls /\ [][NextCalls]_vars

(***************************************************************************)
(* Properties of single calls (checked under SpecCalls)                    *)
(***************************************************************************)
RECURSIVE Pow10(_)
Pow10(k) == IF k = 0 THEN 1 ELSE 10 * Pow10(k - 1)

\* the largest n whose "{n}" plus a suffix fits in MaxLen characters
MaxNat == Pow10(MaxLen - 1) - 1

TimeoutDone == pc = "done" /\ call.op = "timeout_conversion"
TimeoutArg == call.args[1].str
TimeoutPrefix == SubSeq(TimeoutArg, 1, Len(TimeoutArg) - 1)
WithSuffix(n, c) == PyStr(IntToStr(n) \o <<c>>)

\* C1: for every non-negative integer n, timeout_conversion maps "{n}m" to
\* "{n*60}s", "{n}h" to "{n*3600}s" and "{n}s" to the unchanged input.
\* (Only an argument with an all-digits prefix can be a "{n}x"; the other
\* arguments are skipped before the quantifier.)
C1_TimeoutConversion ==
    (/\ TimeoutDone
     /\ Len(TimeoutArg) > 1
     /\ \A k \in 1..Len(TimeoutPrefix) : TimeoutPrefix[k] \in DigitChars)
    => \A n \in 0..MaxNat :
          /\ call.args[1] = WithSuffix(n, "m") => ret = Return(WithSuffix(n * 60, "s"))
          /\ call.args[1] = WithSuffix(n, "h") => ret = Return(WithSuffix(n * 3600, "s"))
          /\ call.args[1] = WithSuffix(n, "s") => ret = Return(call.args[1])

C1_Witness ==
    /\ TimeoutDone
    /\ call.args[1] = WithSuffix(2, "h")
    /\ ret = Return(PyStr(<<"7", "2", "0", "0", "s">>))

\* C2 (as claimed): timeout_conversion fails with the invalid-timeout error for
\* every string whose last character is outside {s, m, h} and for every string
\* whose prefix before the suffix is not an integer, also when the suffix is s.
C2_InvalidTimeoutFails ==
    (/\ TimeoutDone
     /\ Len(TimeoutArg) > 0
     /\ \/ TimeoutArg[Len(TimeoutArg)] \notin {"s", "m", "h"}
        \/ IsRaise(py_int(PyStr(TimeoutPrefix))))
    => (IsRaise(ret) /\ ret.raise.type = "ValueError")

OptionsDone == pc = "done" /\ call.op = "K8sResourceOptions"

\* an accelerator argument that is supplied and non-empty, a count of 0 included
Supplied(gpu) == ~IsNone(gpu) /\ gpu # PyStr(<<>>)

ConflictError ==
    Raise("ValueError", "Both nvidia_gpu and amd_gpu cannot be set at the same time.")

\* C3 (as claimed): K8sResourceOptions fails whenever both accelerator
\* arguments are supplied, whatever their type, a count of 0 included.
C3_BothSuppliedFails ==
    (OptionsDone /\ Supplied(call.args[3]) /\ Supplied(call.args[4]))
    => ret = ConflictError

\* C3 (amended): K8sResourceOptions fails exactly when both accelerator
\* arguments are truthy (a non-zero integer or a non-empty string, the string
\* "0" included; not the integer 0); a constructed object never holds a
\* quantity in both accelerator fields, and holds one exactly for a truthy
\* argument.
C3_BothTruthyFails ==
    OptionsDone =>
        /\ (Truthy(call.args[3]) /\ Truthy(call.args[4])) <=> (ret = ConflictError)
        /\ IsReturn(ret) =>
              /\ ~(IsQuantity(ret.return.nvidia_gpu) /\ IsQuantity(ret.return.amd_gpu))
              /\ IsQuantity(ret.return.nvidia_gpu) <=> Truthy(call.args[3])
              /\ IsQuantity(ret.return.amd_gpu) <=> Truthy(call.args[4])

C3_Witness ==
    /\ OptionsDone
    /\ call.args[3] = PyStr(<<"0">>)
    /\ call.args[4] = PyInt(1)
    /\ ret = ConflictError

ExactlyOneNone(a, b) == IsNone(a) # IsNone(b)
ExactlyOneAbsent(d) == IsAbsent(d.dict.limits) # IsAbsent(d.dict.requests)

\* C4: resource pair construction fails with the missing-section error whenever
\* exactly one of limits / requests is omitted, in K8sResources, in
\* k8s_resources_from_dict and in Submission.resources_from_dict, and no
\* K8sResources object is produced.
C4_OneSectionOmittedFails ==
    /\ (pc = "done" /\ call.op \in {"K8sResources", "k8s_resources_from_dict"}
        /\ ExactlyOneNone(call.args[1], call.args[2]))
       => ret = BothError
    /\ (pc = "done" /\ call.op = "resources_from_dict" /\ IsDict(call.args[1])
        /\ ExactlyOneAbsent(call.args[1]))
       => (ret = BothError /\ IsNone(submission.resources))

C4_Witness ==
    /\ pc = "done"
    /\ call.op = "resources_from_dict"
    /\ IsDict(call.args[1])
    /\ IsAbsent(call.args[1].dict.limits)
    /\ IsDict(call.args[1].dict.requests)
    /\ ret = BothError
    /\ IsNone(submission.resources)

(***************************************************************************)
(* get_submissions, step by step                                           *)
(***************************************************************************)
Queue_q == PyStr(<<"q">>)
Timeout_5x == PyStr(<<"5", "x">>)
Timeout_xm == PyStr(<<"x", "m">>)

Section_A == [dict |-> [cpu |-> PyInt(2), memory |-> Absent,
                        nvidia_gpu |-> Absent, amd_gpu |-> Absent]]
Section_B == [dict |-> [cpu |-> Absent, memory |-> PyStr(<<"2", "G", "i">>),
                        nvidia_gpu |-> PyInt(1), amd_gpu |-> Absent]]

EntryResources ==
    {[dict |-> [limits |-> Absent, requests |-> Absent]],
     [dict |-> [limits |-> Section_A, requests |-> Absent]],
     [dict |-> [limits |-> Section_A, requests |-> Section_B]],
     [dict |-> [limits |-> Section_B, requests |-> Section_A]],
     PyStr(<<"x">>)}

OptionalKeys == {"armada_queue", "armada_priority", "timeout", "resources"}

\* the entries of a document: name and image present or not, and at most one
\* of the optional keys present
Entries ==
    {[dict |-> e] : e \in
        {x \in [name : {Absent, Name_nb, Name_nb2},
                image : {Absent, Image_img},
                armada_queue : {Absent, Queue_q},
                armada_priority : {Absent, PyInt(5)},
                timeout : {Absent, Timeout_10m, Timeout_5x, Timeout_xm},
                resources : {Absent} \cup EntryResources] :
            Cardinality({k \in OptionalKeys : ~IsAbsent(x[k])}) <= 1}}

Documents == SeqsUpTo(Entries, MaxEntries)

MissingKeyError(key) == Raise("ValueError", <<"Missing mandatory key", key>>)

Init ==
    /\ pc = "loop"
    /\ \E doc \in Documents :
          /\ call = [op |-> "get_submissions", args |-> <<doc>>]
          /\ config = doc
    /\ idx = 1
    /\ resources = None
    /\ submission = None
    /\ submissions = <<>>
    /\ ret = NotYet
    /\ podspec = None

\* for submission in config[submissions]: resources = submission.pop(resources, None)
PopResources ==
    /\ pc = "loop"
    /\ idx <= Len(config)
    /\ resources' = Get(config[idx], "resources", None)
    /\ config' = [config EXCEPT ![idx].dict.resources = Absent]
    /\ submission' = config'[idx]
    /\ pc' = "check"
    /\ UNCHANGED <<call, ret, idx, submissions, podspec>>

\* seeded fault: the mandatory-key check looking at name only
CheckMandatoryKeys_name_only ==
    /\ pc = "check"
    /\ IF IsAbsent(submission.dict.name)
       THEN ret' = MissingKeyError("name") /\ pc' = "raised"
       ELSE ret' = ret /\ pc' = "construct"
    /\ UNCHANGED <<call, config, idx, resources, submission, submissions, podspec>>

\* check for missing mandatory keys
CheckMandatoryKeys ==
    /\ pc = "check"
    /\ IF IsAbsent(submission.dict.name)
       THEN ret' = MissingKeyError("name") /\ pc' = "raised"
       ELSE IF IsAbsent(submission.dict.image)
       THEN ret' = MissingKeyError("image") /\ pc' = "raised"
       ELSE ret' = ret /\ pc' = "construct"
    /\ UNCHANGED <<call, config, idx, resources, submission, submissions, podspec>>

\* seeded fault: the construction ignoring the timeout key
ConstructSubmission_default_timeout ==
    /\ pc = "construct"
    /\ LET made == Submission(submission.dict.name,
                              submission.dict.image,
                              Get(submission, "armada_queue", DEFAULT_QUEUE),
                              Get(submission, "armada_priority", DEFAULT_PRIORITY),
                              DEFAULT_TIMEOUT,
                              None)
       IN  IF IsRaise(made)
           THEN ret' = made /\ pc' = "raised" /\ submission' = submission
           ELSE ret' = ret /\ pc' = "insert" /\ submission' = made.return
    /\ UNCHANGED <<call, config, idx, resources, submissions, podspec>>

\* submission = Submission(name=..., image=..., armada_queue=..., ...)
ConstructSubmission ==
    /\ pc = "construct"
    /\ LET made == Submission(submission.dict.name,
                              submission.dict.image,
                              Get(submission, "armada_queue", DEFAULT_QUEUE),
                              Get(submission, "armada_priority", DEFAULT_PRIORITY),
                              Get(submission, "timeout", DEFAULT_TIMEOUT),
                              None)
       IN  IF IsRaise(made)
           THEN ret' = made /\ pc' = "raised" /\ submission' = submission
           ELSE ret' = ret /\ pc' = "insert" /\ submission' = made.return
    /\ UNCHANGED <<call, config, idx, resources, submissions, podspec>>

\* if resources: submission.resources_from_dict(resources)
InsertResources ==
    /\ pc = "insert"
    /\ IF Truthy(resources)
       THEN LET out == resources_from_dict(submission, resources)
            IN  /\ submission' = out.self
                /\ IF IsRaise(out.ret)
                   THEN ret' = out.ret /\ pc' = "raised"
                   ELSE ret' = ret /\ pc' = "append"
       ELSE submission' = submission /\ ret' = ret /\ pc' = "append"
    /\ UNCHANGED <<call, config, idx, resources, submissions, podspec>>

\* seeded fault: the Submission inserted at the front of the list
AppendSubmission_at_front ==
    /\ pc = "append"
    /\ submissions' = <<submission>> \o submissions
    /\ idx' = idx + 1
    /\ pc' = "loop"
    /\ UNCHANGED <<call, ret, config, resources, submission, podspec>>

\* submissions.append(submission)
AppendSubmission ==
    /\ pc = "append"
    /\ submissions' = Append(submissions, submission)
    /\ idx' = idx + 1
    /\ pc' = "loop"
    /\ UNCHANGED <<call, ret, config, resources, submission, podspec>>

\* return submissions
ReturnSubmissions ==
    /\ pc = "loop"
    /\ idx > Len(config)
    /\ ret' = Return(submissions)
    /\ pc' = "done"
    /\ UNCHANGED <<call, config, idx, resources, submission, submissions, podspec>>

\* the caller's to_podspec() on a returned Submission
ToPodspec ==
    /\ pc = "done"
    /\ \E k \in 1..Len(submissions) : podspec' = to_podspec(submissions[k])
    /\ UNCHANGED <<pc, call, ret, config, idx, resources, submission, submissions>>

Next ==
    \/ PopResources
    \/ CheckMandatoryKeys
    \/ ConstructSubmission
    \/ InsertResources
    \/ AppendSubmission
    \/ ReturnSubmissions
    \/ ToPodspec

Spec == Init /\ [][Next]_vars

(***************************************************************************)
(* Properties of get_submissions (checked under Spec)                      *)
(***************************************************************************)
\* the document as loaded, before the loop pops anything out of it
Document == call.args[1]

MissingKey(e) == IsAbsent(e.dict.name) \/ IsAbsent(e.dict.image)

BadTimeout(e) == IsRaise(timeout_conversion(Get(e, "timeout", DEFAULT_TIMEOUT)))

BadResources(e) ==
    /\ Truthy(Get(e, "resources", None))
    /\ IsRaise(resources_from_dict(FreshSubmission, Get(e, "resources", None)).ret)

Faulty(e) == MissingKey(e) \/ BadTimeout(e) \/ BadResources(e)

\* C5: a document with an entry lacking name or image yields no Submission
\* sequence at all; the error raised is that of the first faulty entry in
\* document order; and within an entry the missing-key error precedes any
\* timeout or resources error of that entry.
C5_MissingKeyAborts ==
    /\ (\E k \in 1..Len(Document) : MissingKey(Document[k]))
       => (pc # "done" /\ ~IsReturn(ret))
    /\ pc = "raised" =>
          /\ idx \in 1..Len(Document)
          /\ Faulty(Document[idx])
          /\ \A k \in 1..(idx - 1) : ~Faulty(Document[k])
          /\ IsRaise(ret)
          /\ MissingKey(Document[idx]) <=>
                ret \in {MissingKeyError("name"), MissingKeyError("image")}
          /\ IsAbsent(Document[idx].dict.name) => ret = MissingKeyError("name")

C5_Witness ==
    /\ pc = "raised"
    /\ idx = 2
    /\ Len(submissions) = 1
    /\ IsAbsent(Document[2].dict.image)
    /\ Document[2].dict.timeout = Timeout_5x
    /\ ret = MissingKeyError("image")

EndToEndEntry ==
    [dict |-> [name |-> Name_nb, image |-> Image_img, armada_queue |-> Absent,
               armada_priority |-> Absent, timeout |-> Timeout_10m,
               resources |-> Absent]]

OneEmptyContainer(spec) ==
    /\ Len(spec.containers) = 1
    /\ spec.containers[1].resources.requests = EmptyMap
    /\ spec.containers[1].resources.limits = EmptyMap

\* C6: the document with the single entry {name: nb, image: img:tag,
\* timeout: "10m"} yields exactly one Submission with timeout "600s", the
\* default queue and priority, no resources, and a podspec with exactly one
\* container whose requests and limits maps are empty.
C6_EndToEnd ==
    Document = <<EndToEndEntry>> =>
        /\ pc # "raised"
        /\ pc = "done" =>
              /\ ret = Return(submissions)
              /\ Len(submissions) = 1
              /\ submissions[1].timeout = PyStr(<<"6", "0", "0", "s">>)
              /\ submissions[1].armada_queue = DEFAULT_QUEUE
              /\ submissions[1].armada_priority = DEFAULT_PRIORITY
              /\ IsNone(submissions[1].resources)
              /\ OneEmptyContainer(to_podspec(submissions[1]))
              /\ ~IsNone(podspec) => OneEmptyContainer(podspec)

C6_Witness ==
    /\ Document = <<EndToEndEntry>>
    /\ pc = "done"
    /\ ~IsNone(podspec)
    /\ podspec.activeDeadlineSeconds = PyStr(<<"6", "0", "0", "s">>)

\* C7: for a valid document get_submissions returns exactly one Submission per
\* entry, in document order: the i-th Submission carries the name and image of
\* the i-th entry.
C7_OnePerEntryInOrder ==
    /\ Len(submissions) <= Len(Document)
    /\ \A i \in 1..Len(submissions) :
          /\ IsSubmission(submissions[i])
          /\ submissions[i].name = Document[i].dict.name
          /\ submissions[i].image = Document[i].dict.image
    /\ pc = "done" => (ret = Return(submissions) /\ Len(submissions) = Len(Document))
    /\ (\A k \in 1..Len(Document) : ~Faulty(Document[k])) => pc # "raised"

C7_Witness ==
    /\ pc = "done"
    /\ Len(Document) = 2
    /\ Len(ret.return) = 2
    /\ ret.return[1].name = Name_nb2
    /\ ret.return[2].name = Name_nb

Constructed == pc \in {"insert", "append"}

ListUntouched ==
    \A k \in 1..Len(submissions) : submissions'[k] = submissions[k]

\* C10 (as claimed): once a Submission is constructed, no later step of
\* get_submissions and no operation on it changes any of its fields.
C10_ImmutableAfterConstruction ==
    [][(Constructed => submission' = submission) /\ ListUntouched]_vars

\* C10 (amended): once a Submission is constructed, name, image, armada_queue,
\* armada_priority and timeout never change, and to_podspec changes nothing;
\* resources is the one field that changes after construction: the
\* resources_from_dict step replaces the absent resources by a K8sResources
\* when it succeeds and leaves the object as it was when it fails.  Once the
\* Submission is in the result list nothing changes it.
C10_OnlyResourcesChange ==
    [][/\ Constructed =>
             /\ [submission' EXCEPT !.resources = None]
                    = [submission EXCEPT !.resources = None]
             /\ submission'.resources # submission.resources =>
                   /\ pc = "insert"
                   /\ pc' = "append"
                   /\ Truthy(resources)
                   /\ IsNone(submission.resources)
                   /\ IsK8sResources(submission'.resources)
             /\ pc' = "raised" => submission' = submission
       /\ ListUntouched]_vars

C10_Witness ==
    /\ pc = "append"
    /\ IsK8sResources(submission.resources)

(***************************************************************************)
(* SpecObject: one Submission variable of a caller, and any sequence of    *)
(* constructions, resources_from_dict calls and to_podspec calls on it     *)
(***************************************************************************)
Timeout_90s == PyStr(<<"9", "0", "s">>)

Section_C == [dict |-> [cpu |-> Absent, memory |-> Absent,
                        nvidia_gpu |-> PyInt(1), amd_gpu |-> PyStr(<<"2">>)]]
Section_D == [dict |-> [cpu |-> PyStr(<<"4">>), memory |-> Absent,
                        nvidia_gpu |-> PyInt(0), amd_gpu |-> PyStr(<<"2">>)]]

ObjectSections == {Section_A, Section_B, Section_C, Section_D}

ObjectResourceDicts ==
    {[dict |-> [limits |-> l, requests |-> r]] :
        l \in {Absent} \cup ObjectSections, r \in {Absent} \cup ObjectSections}
    \cup {PyStr(<<"x">>)}

\* the K8sResourceOptions a caller holds
ObjectOptions ==
    {OptionsFromDict(d).return : d \in {x \in ObjectSections : IsReturn(OptionsFromDict(x))}}

\* resources arguments that are no K8sResources
OtherResources ==
    {None, PyStr(<<"x">>), [dict |-> [limits |-> Section_A, requests |-> Section_B]]}
    \cup ObjectOptions

InitObject ==
    /\ pc = "object"
    /\ call = [op |-> "none", args |-> <<>>]
    /\ ret = NotYet
    /\ submission = None
    /\ config = None
    /\ idx = 0
    /\ resources = None
    /\ submissions = <<>>
    /\ podspec = None

\* submission = Submission(nb, img, queue, priority, timeout, resources=res)
NewSubmission ==
    \E timeout \in {Timeout_10m, Timeout_90s, Timeout_5x}, res \in OtherResources :
        LET made == Submission(Name_nb, Image_img, DEFAULT_QUEUE, DEFAULT_PRIORITY,
                               timeout, res)
        IN  /\ call' = [op |-> "Submission", args |-> <<timeout, res>>]
            /\ ret' = made
            /\ submission' = IF IsReturn(made) THEN made.return ELSE submission
            /\ UNCHANGED <<pc, config, idx, resources, submissions, podspec>>

\* submission = Submission(..., resources=K8sResources(limits=l, requests=r))
NewSubmissionWithResources ==
    \E timeout \in {Timeout_10m, Timeout_90s},
       l \in {None} \cup ObjectOptions, r \in {None} \cup ObjectOptions :
        LET pair == K8sResources(l, r)
            made == IF IsRaise(pair) THEN pair
                    ELSE Submission(Name_nb, Image_img, DEFAULT_QUEUE, DEFAULT_PRIORITY,
                                    timeout, pair.return)
        IN  /\ call' = [op |-> "Submission_K8sResources", args |-> <<timeout, l, r>>]
            /\ ret' = made
            /\ submission' = IF IsReturn(made) THEN made.return ELSE submission
            /\ UNCHANGED <<pc, config, idx, resources, submissions, podspec>>

\* submission.resources_from_dict(d)
ObjectResourcesFromDict ==
    /\ IsSubmission(submission)
    /\ \E d \in ObjectResourceDicts :
          LET out == resources_from_dict(submission, d)
          IN  /\ call' = [op |-> "resources_from_dict", args |-> <<d>>]
              /\ ret' = out.ret
              /\ submission' = out.self
    /\ UNCHANGED <<pc, config, idx, resources, submissions, podspec>>

\* podspec = submission.to_podspec()
ObjectToPodspec ==
    /\ IsSubmission(submission)
    /\ call' = [op |-> "to_podspec", args |-> <<>>]
    /\ podspec' = to_podspec(submission)
    /\ ret' = Return(None)
    /\ UNCHANGED <<pc, config, idx, resources, submission, submissions>>

NextObject ==
    \/ NewSubmission
    \/ NewSubmissionWithResources
    \/ ObjectResourcesFromDict
    \/ ObjectToPodspec

SpecObject == InitObject /\ [][NextObject]_vars

(***************************************************************************)
(* Properties of the Submission object (checked under SpecObject)          *)
(***************************************************************************)
PodRequests(self) == to_podspec(self).containers[1].resources.requests
PodLimits(self) == to_podspec(self).containers[1].resources.limits

KeepsApart(L, R) ==
    /\ submission.resources.limits = L
    /\ submission.resources.requests = R
    /\ PodLimits(submission) = ResourceMap(L)
    /\ PodRequests(submission) = ResourceMap(R)

\* C8 (as claimed): a Submission whose resources were built from a limits
\* section L and a requests section R keeps them apart: resources.limits holds
\* L, resources.requests holds R, and to_podspec() puts L in the limits map and
\* R in the requests map, also when L differs from R.
C8_RequestsAndLimitsKeptApart ==
    /\ (call.op = "resources_from_dict" /\ IsReturn(ret))
       => KeepsApart(OptionsFromDict(call.args[1].dict.limits).return,
                     OptionsFromDict(call.args[1].dict.requests).return)
    /\ (call.op = "Submission_K8sResources" /\ IsReturn(ret))
       => KeepsApart(call.args[2], call.args[3])

WellFormedResources(self) ==
    \/ IsNone(self.resources)
    \/ /\ IsK8sResources(self.resources)
       /\ IsK8sResourceOptions(self.resources.limits)
       /\ IsK8sResourceOptions(self.resources.requests)

C9_Invariant ==
    /\ IsSubmission(submission) => WellFormedResources(submission)
    /\ (call.op = "Submission" /\ ~IsNone(call.args[2]) /\ ~IsK8sResources(call.args[2]))
       => IsRaise(ret)

C9_FailedCallKeepsResources ==
    (call'.op = "resources_from_dict" /\ IsRaise(ret')) => submission' = submission

\* C9: the resources field of every reachable Submission is absent or a
\* K8sResources holding a K8sResourceOptions as limits and as requests;
\* constructing a Submission with resources that are neither absent nor a
\* K8sResources fails; a failing resources_from_dict call leaves the field as
\* it was.
C9_ResourcesWellFormed ==
    []C9_Invariant /\ [][C9_FailedCallKeepsResources]_vars

C9_Witness ==
    /\ call.op = "resources_from_dict"
    /\ IsRaise(ret)
    /\ IsSubmission(submission)
    /\ IsK8sResources(submission.resources)

====
